---- MODULE Spec2Model ----
(***************************************************************************)
(* Model of the operations API test suite: the pydantic request/response   *)
(* schemas (schema/operations.py), the OperationsClient                    *)
(* (clients/operations_client.py), the function_operation fixture          *)
(* (fixtures/operations.py) and the five scenarios of TestOperations       *)
(* (tests/test_operations.py), run as coroutines that interleave at their  *)
(* awaits against a backend that stores Operations by id.                  *)
(***************************************************************************)
EXTENDS Integers, Sequences, FiniteSets, TLC

\* ------------------------------------------------------------------ bounds

\* fake.date draws from today-30d .. today; the model draws from
\* today-MaxDaysBack .. today.
MaxDaysBack == 1

\* How many requests of a run of the suite the transport or the server may
\* fail (see Exchange).
MaxFaults == 1

\* ------------------------------------------------------------------ values

\* Python's None (in memory) and JSON's null (on the wire).
None == "None"
Null == "null"

Categories == <<"food", "taxi", "fuel", "beauty", "restaurants">>

\* datetime.date values and their ISO-8601 renderings, index k+1 = today - k.
Dates == <<"date(2024,5,1)", "date(2024,4,30)", "date(2024,4,29)", "date(2024,4,28)">>
IsoDates == <<"2024-05-01", "2024-04-30", "2024-04-29", "2024-04-28">>

\* The generators of tools/fakers.py, as the sets they draw from: one amount,
\* the first category, one sentence, and the dates of the last MaxDaysBack
\* days.
FakeMoney == {"-42.5"}
FakeCategory == {Categories[1]}
FakeSentence == {"cab ride"}
FakeDate == {Dates[i] : i \in 1..(MaxDaysBack + 1)}

\* In-memory field names of the three schemas (id apart).
Fields == {"debit", "credit", "category", "description", "transaction_date"}

\* Field(alias="transactionDate") on transaction_date; the others have none.
Alias(f) == IF f = "transaction_date" THEN "transactionDate" ELSE f

WireKeys == {Alias(f) : f \in Fields}

\* default_factory of each field.
DefaultFactory(f) ==
    CASE f = "debit" -> FakeMoney
      [] f = "credit" -> FakeMoney
      [] f = "category" -> FakeCategory
      [] f = "description" -> FakeSentence
      [] f = "transaction_date" -> FakeDate

\* Values a caller can pass for a field so that validation accepts them:
\* debit and credit are float | str | None in both request schemas, the other
\* fields are nullable in UpdateOperationSchema only.
CreateAllowed(f) ==
    IF f \in {"debit", "credit"} THEN DefaultFactory(f) \cup {None}
    ELSE DefaultFactory(f)

UpdateAllowed(f) == DefaultFactory(f) \cup {None}

\* The keyword arguments of a constructor call: a function from the supplied
\* field names to their values.
Kwargs(kind) ==
    LET Allowed(f) == IF kind = "create" THEN CreateAllowed(f) ELSE UpdateAllowed(f)
    IN UNION {{kw \in [S -> UNION {Allowed(f) : f \in Fields}] :
                 \A f \in S : kw[f] \in Allowed(f)} : S \in SUBSET Fields}

\* The models whose field f holds a value of V[f].
Models(V) ==
    {[debit |-> a, credit |-> b, category |-> c, description |-> d,
      transaction_date |-> e] :
        a \in V["debit"], b \in V["credit"], c \in V["category"],
        d \in V["description"], e \in V["transaction_date"]}

\* CreateOperationSchema(**kw) / UpdateOperationSchema(**kw): the models the
\* call can build, a supplied field keeping its value and every other field
\* drawing from its default_factory.
BuildSchema(kw) ==
    Models([f \in Fields |-> IF f \in DOMAIN kw THEN {kw[f]} ELSE DefaultFactory(f)])

\* mode='json' rendering of one value: None becomes null, a date its ISO
\* string, a float or str itself.
DateIndex(d) == CHOOSE i \in 1..Len(Dates) : Dates[i] = d

ToJson(f, v) ==
    IF v = None THEN Null
    ELSE IF f = "transaction_date" THEN IsoDates[DateIndex(v)]
    ELSE v

\* BaseModel.model_dump(mode='json', by_alias=..., exclude_none=...).
ModelDump(m, by_alias, exclude_none) ==
    LET kept == {f \in Fields : ~(exclude_none /\ m[f] = None)}
        key(f) == IF by_alias THEN Alias(f) ELSE f
        field(k) == CHOOSE f \in kept : key(f) = k
    IN [k \in {key(f) : f \in kept} |-> ToJson(field(k), m[field(k)])]

\* The json= argument of create_operation_api.
CreateDumpNoAlias(m) == ModelDump(m, FALSE, FALSE)
CreateDump(m) == ModelDump(m, TRUE, FALSE)

\* The json= argument of update_operation_api.
UpdateDumpKeepNone(m) == ModelDump(m, TRUE, FALSE)
UpdateDump(m) == ModelDump(m, TRUE, TRUE)


\* ------------------------------------------------------------------ parsing

\* populate_by_name=True: a field is read from its alias or from its name.
ValidationKeysNameOnly(f) == {f}
ValidationKeys(f) == {Alias(f), f}

\* Validation of one JSON value for a field of OperationSchema: the set of
\* in-memory values it yields, empty when the value is rejected.  null is
\* accepted by debit and credit only; a date is read from its ISO string.
FromJson(f, v) ==
    IF v = Null THEN (IF f \in {"debit", "credit"} THEN {None} ELSE {})
    ELSE IF f = "transaction_date"
         THEN {Dates[i] : i \in {j \in 1..Len(IsoDates) : IsoDates[j] = v}}
    ELSE {v}

\* The values field f of the parsed model can take for a JSON object: the
\* validated value when a key of the field is present, a draw of the
\* default_factory when none is.
FieldValues(json, f) ==
    LET present == ValidationKeys(f) \cap DOMAIN json
    IN IF present = {} THEN DefaultFactory(f)
       ELSE FromJson(f, json[CHOOSE k \in present : TRUE])

\* OperationSchema.model_validate_json(response.text): the set of models the
\* call can return; empty means it raises ValidationError.  id is the only
\* required field, keys that name no field are ignored.
ModelValidateJson(resp) ==
    IF resp.shape # "object" \/ "id" \notin DOMAIN resp.json THEN {}
    ELSE {[k \in Fields \cup {"id"} |-> IF k = "id" THEN resp.json["id"] ELSE m[k]] :
            m \in Models([f \in Fields |-> FieldValues(resp.json, f)])}

\* ------------------------------------------------------------------ backend

\* HTTPStatus members the scenarios expect.
OK == 200
CREATED == 201
NOT_FOUND == 404

\* The scenarios of TestOperations, numbered in source order.
Tests == {"test_get_operations", "test_get_operation", "test_create_operation",
          "test_update_operation", "test_delete_operation"}

\* The tests that take the function_operation fixture.
FixtureTests == {"test_get_operation", "test_update_operation", "test_delete_operation"}

TestNumber(t) ==
    CASE t = "test_get_operations" -> 1
      [] t = "test_get_operation" -> 2
      [] t = "test_create_operation" -> 3
      [] t = "test_update_operation" -> 4
      [] t = "test_delete_operation" -> 5

\* The id a response carries when no stored Operation is meant, and the id
\* logged for a request on the collection.
NoId == 0

\* The server assigns the id of a created Operation.  Ids are opaque to the
\* client and never reused here; the fresh id of the Operation a test creates
\* is that test's number.
FreshId(t) == TestNumber(t)

Found(store, id) == {o \in store : o["id"] = id}

ErrorBody == [detail |-> "error"]
ErrorBodyWithId == [id |-> NoId, detail |-> "error"]

Response(status, shape, json) ==
    [raised |-> FALSE, status |-> status, shape |-> shape, json |-> json]

\* What can come back for a request, as a list: the backend's answer, or
\* the transport raising (no response, status 0), or a server error whose
\* body is an error object, without or with an id member.  A request that
\* fails this way leaves the store unchanged.
Exchange(answer, store) ==
    << answer,
       [resp |-> [raised |-> TRUE, status |-> 0, shape |-> "none", json |-> ErrorBody],
        store |-> store],
       [resp |-> Response(500, "object", ErrorBody), store |-> store],
       [resp |-> Response(500, "object", ErrorBodyWithId), store |-> store] >>

\* POST /fakebank/accounts: stores the payload under a fresh id, 201 and the
\* stored Operation.
BackendCreate(store, t, payload) ==
    LET rec == [k \in DOMAIN payload \cup {"id"} |->
                  IF k = "id" THEN FreshId(t) ELSE payload[k]]
    IN [resp |-> Response(CREATED, "object", rec), store |-> store \cup {rec}]

\* GET /fakebank/accounts/{id}: 200 and the stored Operation, or 404.
BackendGet(store, id) ==
    IF Found(store, id) = {}
    THEN [resp |-> Response(NOT_FOUND, "object", ErrorBody), store |-> store]
    ELSE [resp |-> Response(OK, "object", CHOOSE o \in Found(store, id) : TRUE),
          store |-> store]

\* GET /fakebank/accounts: 200 and the array of stored Operations.
BackendList(store) == [resp |-> Response(OK, "array", store), store |-> store]

\* PATCH /fakebank/accounts/{id}: overwrites the members the payload carries,
\* 200 and the updated Operation, or 404.
BackendUpdate(store, id, payload) ==
    IF Found(store, id) = {}
    THEN [resp |-> Response(NOT_FOUND, "object", ErrorBody), store |-> store]
    ELSE LET old == CHOOSE o \in Found(store, id) : TRUE
             rec == [k \in DOMAIN old \cup DOMAIN payload |->
                       IF k \in DOMAIN payload THEN payload[k] ELSE old[k]]
         IN [resp |-> Response(OK, "object", rec),
             store |-> (store \ {old}) \cup {rec}]

\* DELETE /fakebank/accounts/{id}: removes the Operation, 200, or 404.
BackendDelete(store, id) ==
    IF Found(store, id) = {}
    THEN [resp |-> Response(NOT_FOUND, "object", ErrorBody), store |-> store]
    ELSE [resp |-> Response(OK, "object", CHOOSE o \in Found(store, id) : TRUE),
          store |-> store \ Found(store, id)]

\* ------------------------------------------------------------------ assertions

\* assert_status_code: passes when the two codes are equal.
AssertStatusCode(actual, expected) == actual = expected

\* assert_operation: every field of the two Operations, id included, is equal.
AssertOperation(actual, expected) ==
    \A f \in Fields \cup {"id"} : actual[f] = expected[f]

\* assert_create_operation: every field the request carries a value for is
\* equal in the Operation.
AssertCreateOperation(actual, request) ==
    \A f \in Fields : request[f] = None \/ actual[f] = request[f]

\* validate_json_schema against OperationSchema.model_json_schema(): an object
\* with an id whose members named by the schema have the schema's types.
ValidOperationJson(json) ==
    /\ "id" \in DOMAIN json
    /\ \A f \in Fields : Alias(f) \in DOMAIN json => FromJson(f, json[Alias(f)]) # {}

ValidateJsonSchema(resp) ==
    IF resp.shape = "array" THEN \A o \in resp.json : ValidOperationJson(o)
    ELSE resp.shape = "object" /\ ValidOperationJson(resp.json)

\* ------------------------------------------------------------------ state

VARIABLES
    store,               \* the Operations the backend holds
    faults,              \* how many requests have failed so far
    pc,                  \* per test: "setup", "call", "call2", "teardown", "done"
    function_operation,  \* per test: <<>> or <<the fixture's Operation>>
    operation,           \* <<>> or <<the Operation test_get_operation parsed>>
    log,                 \* per test: the requests it issued, in order
    steps,               \* per test: the steps its body applied to the response
    setup_outcome,       \* per test: "none", "ok", "error:transport", "error:validation"
    call_outcome,        \* per test: "none", "passed", "failed:...", "error:..."
    teardown_outcome,    \* per test: "none", "ok", "error:transport"
    schema,              \* constructor under study: "create" or "update"
    kwargs,              \* the keyword arguments it was called with
    request,             \* <<>> or <<the model it built>>
    payload              \* <<>> or <<the JSON body sent for it>>

suite_vars == <<store, faults, pc, function_operation, operation, log, steps,
                setup_outcome, call_outcome, teardown_outcome>>
dump_vars == <<schema, kwargs, request, payload>>
vars == <<suite_vars, dump_vars>>

\* One issued request and what came back for it: status 0 and no keys when
\* the transport raised.
Entry(phase, method, id, resp) ==
    [phase |-> phase, method |-> method, id |-> id, status |-> resp.status,
     keys |-> IF resp.shape = "object" THEN DOMAIN resp.json ELSE {}]

InitSuite ==
    /\ store = {}
    /\ faults = 0
    /\ pc = [t \in Tests |-> IF t \in FixtureTests THEN "setup" ELSE "call"]
    /\ function_operation = [t \in Tests |-> <<>>]
    /\ operation = <<>>
    /\ log = [t \in Tests |-> <<>>]
    /\ steps = [t \in Tests |-> <<>>]
    /\ setup_outcome = [t \in Tests |-> "none"]
    /\ call_outcome = [t \in Tests |-> "none"]
    /\ teardown_outcome = [t \in Tests |-> "none"]

InitIdle ==
    /\ schema = "create"
    /\ kwargs = <<>>
    /\ request = <<>>
    /\ payload = <<>>

Init == InitSuite /\ InitIdle

\* The entries of Exchange a request can get: the backend's answer, and the
\* failures while the run has not used up MaxFaults.
Outcomes == IF faults < MaxFaults THEN 1..4 ELSE {1}

\* ------------------------------------------------------------------ fixture

\* OperationsClient.create_operation: what it returns for a response, the
\* empty set when it raises ValidationError.
CreateOperationChecked(resp) ==
    IF resp.status \in 200..299 THEN ModelValidateJson(resp) ELSE {}
CreateOperation(resp) == ModelValidateJson(resp)

\* Where a test goes when its body has ended with the given outcome: the
\* fixture resumes after its yield whatever the outcome.
AfterCallOnlyOnPass(t, outcome) ==
    IF t \notin FixtureTests THEN "done"
    ELSE IF outcome = "passed" THEN "teardown" ELSE "done"
AfterCall(t, outcome) == IF t \in FixtureTests THEN "teardown" ELSE "done"

\* The outcome of the teardown for the response to its DELETE.
TeardownOutcomeChecked(resp) ==
    IF resp.raised \/ resp.status # OK THEN "error:transport" ELSE "ok"
TeardownOutcome(resp) == IF resp.raised THEN "error:transport" ELSE "ok"

\* function_operation up to its yield: create_operation() builds a default
\* CreateOperationSchema, POSTs it and parses the response.  If it raises, the
\* test errors in setup and neither body nor teardown runs.
Setup(t) ==
    /\ t \in FixtureTests
    /\ pc[t] = "setup"
    /\ \E req \in BuildSchema(<<>>) :
       \E i \in Outcomes :
          \E out \in {Exchange(BackendCreate(store, t, CreateDump(req)), store)[i]} :
          /\ store' = out.store
          /\ faults' = faults + (IF i = 1 THEN 0 ELSE 1)
          /\ log' = [log EXCEPT ![t] = Append(@, Entry("setup", "POST", NoId, out.resp))]
          /\ IF out.resp.raised
             THEN /\ setup_outcome' = [setup_outcome EXCEPT ![t] = "error:transport"]
                  /\ pc' = [pc EXCEPT ![t] = "done"]
                  /\ UNCHANGED function_operation
             ELSE IF CreateOperation(out.resp) = {}
             THEN /\ setup_outcome' = [setup_outcome EXCEPT ![t] = "error:validation"]
                  /\ pc' = [pc EXCEPT ![t] = "done"]
                  /\ UNCHANGED function_operation
             ELSE \E op \in CreateOperation(out.resp) :
                  /\ function_operation' = [function_operation EXCEPT ![t] = <<op>>]
                  /\ setup_outcome' = [setup_outcome EXCEPT ![t] = "ok"]
                  /\ pc' = [pc EXCEPT ![t] = "call"]
    /\ UNCHANGED <<operation, steps, call_outcome, teardown_outcome, dump_vars>>

\* function_operation after its yield: DELETE of the fixture Operation's id;
\* the response is not looked at.  The test is over then and its locals are
\* gone.
Teardown(t) ==
    /\ t \in FixtureTests
    /\ pc[t] = "teardown"
    /\ LET id == function_operation[t][1]["id"]
       IN \E i \in Outcomes :
          \E out \in {Exchange(BackendDelete(store, id), store)[i]} :
          /\ store' = out.store
          /\ faults' = faults + (IF i = 1 THEN 0 ELSE 1)
          /\ log' = [log EXCEPT ![t] = Append(@, Entry("teardown", "DELETE", id, out.resp))]
          /\ teardown_outcome' = [teardown_outcome EXCEPT ![t] = TeardownOutcome(out.resp)]
          /\ pc' = [pc EXCEPT ![t] = "done"]
    /\ function_operation' = [function_operation EXCEPT ![t] = <<>>]
    /\ operation' = IF t = "test_get_operation" THEN <<>> ELSE operation
    /\ UNCHANGED <<steps, setup_outcome, call_outcome, dump_vars>>

\* ------------------------------------------------------------------ scenarios

\* The status each of the read, create and update bodies expects.
ExpectedStatus(t) == IF t = "test_create_operation" THEN CREATED ELSE OK

\* The statements the read, create and update bodies run on a response, in
\* source order: model_validate_json, assert_status_code, the field
\* comparison, validate_json_schema.  The first that raises ends the body.
\* Gives every [outcome, steps, operation] the body of test t can end with,
\* req being the request the create and update bodies built.
CheckResponse(t, resp, req) ==
    LET expected == ExpectedStatus(t)
        Equal(op) == IF t = "test_get_operation"
                     THEN AssertOperation(op, function_operation[t][1])
                     ELSE AssertCreateOperation(op, req)
    IN
    IF resp.raised
    THEN {[outcome |-> "error:transport", steps |-> <<>>, operation |-> <<>>]}
    ELSE IF ModelValidateJson(resp) = {}
    THEN {[outcome |-> "error:validation", steps |-> <<"model_validate_json">>,
           operation |-> <<>>]}
    ELSE {IF ~AssertStatusCode(resp.status, expected)
          THEN [outcome |-> "failed:status",
                steps |-> <<"model_validate_json", "assert_status_code">>,
                operation |-> <<op>>]
          ELSE IF ~Equal(op)
          THEN [outcome |-> "failed:equal",
                steps |-> <<"model_validate_json", "assert_status_code", "assert_equal">>,
                operation |-> <<op>>]
          ELSE [outcome |-> IF ValidateJsonSchema(resp) THEN "passed" ELSE "failed:schema",
                steps |-> <<"model_validate_json", "assert_status_code", "assert_equal",
                            "validate_json_schema">>,
                operation |-> <<op>>]
          : op \in ModelValidateJson(resp)}

\* The end of a body that ran CheckResponse.
Finish(t, r) ==
    /\ call_outcome' = [call_outcome EXCEPT ![t] = r.outcome]
    /\ steps' = [steps EXCEPT ![t] = r.steps]
    /\ pc' = [pc EXCEPT ![t] = AfterCall(t, r.outcome)]

\* test_get_operations: GET the collection, check 200, validate the array.
test_get_operations ==
    LET t == "test_get_operations" IN
    /\ pc[t] = "call"
    /\ \E i \in Outcomes :
          \E out \in {Exchange(BackendList(store), store)[i]} :
          /\ store' = out.store
          /\ faults' = faults + (IF i = 1 THEN 0 ELSE 1)
          /\ log' = [log EXCEPT ![t] = Append(@, Entry("call", "GET", NoId, out.resp))]
          /\ LET outcome == IF out.resp.raised THEN "error:transport"
                            ELSE IF ~AssertStatusCode(out.resp.status, OK)
                            THEN "failed:status"
                            ELSE IF ~ValidateJsonSchema(out.resp) THEN "failed:schema"
                            ELSE "passed" IN
             /\ call_outcome' = [call_outcome EXCEPT ![t] = outcome]
             /\ pc' = [pc EXCEPT ![t] = AfterCall(t, outcome)]
          /\ steps' = [steps EXCEPT ![t] =
                IF out.resp.raised THEN <<>>
                ELSE IF ~AssertStatusCode(out.resp.status, OK) THEN <<"assert_status_code">>
                ELSE <<"assert_status_code", "validate_json_schema">>]
    /\ UNCHANGED <<function_operation, operation, setup_outcome, teardown_outcome, dump_vars>>

\* test_get_operation: GET the fixture Operation by id and compare the parsed
\* Operation with the fixture's.
test_get_operation ==
    LET t == "test_get_operation"
        id == function_operation[t][1]["id"] IN
    /\ pc[t] = "call"
    /\ \E i \in Outcomes :
          \E out \in {Exchange(BackendGet(store, id), store)[i]} :
          /\ store' = out.store
          /\ faults' = faults + (IF i = 1 THEN 0 ELSE 1)
          /\ log' = [log EXCEPT ![t] = Append(@, Entry("call", "GET", id, out.resp))]
          /\ \E r \in CheckResponse(t, out.resp, <<>>) :
                Finish(t, r) /\ operation' = r.operation
    /\ UNCHANGED <<function_operation, setup_outcome, teardown_outcome, dump_vars>>

\* test_create_operation: POST a default CreateOperationSchema and compare the
\* parsed Operation with the request.
test_create_operation ==
    LET t == "test_create_operation" IN
    /\ pc[t] = "call"
    /\ \E req \in BuildSchema(<<>>) : \E i \in Outcomes :
          \E out \in {Exchange(BackendCreate(store, t, CreateDump(req)), store)[i]} :
          /\ store' = out.store
          /\ faults' = faults + (IF i = 1 THEN 0 ELSE 1)
          /\ log' = [log EXCEPT ![t] = Append(@, Entry("call", "POST", NoId, out.resp))]
          /\ \E r \in CheckResponse(t, out.resp, req) :
                Finish(t, r)
    /\ UNCHANGED <<function_operation, operation, setup_outcome, teardown_outcome,
                   dump_vars>>

\* test_update_operation: PATCH the fixture Operation with a default
\* UpdateOperationSchema and compare the parsed Operation with the request.
test_update_operation ==
    LET t == "test_update_operation"
        id == function_operation[t][1]["id"] IN
    /\ pc[t] = "call"
    /\ \E req \in BuildSchema(<<>>) : \E i \in Outcomes :
          \E out \in {Exchange(BackendUpdate(store, id, UpdateDump(req)), store)[i]} :
          /\ store' = out.store
          /\ faults' = faults + (IF i = 1 THEN 0 ELSE 1)
          /\ log' = [log EXCEPT ![t] = Append(@, Entry("call", "PATCH", id, out.resp))]
          /\ \E r \in CheckResponse(t, out.resp, req) :
                Finish(t, r)
    /\ UNCHANGED <<function_operation, operation, setup_outcome, teardown_outcome,
                   dump_vars>>

\* The status test_delete_operation expects of its second request, and the
\* method of that request.
ReadAfterDeleteStatusOK == OK
ReadAfterDeleteStatus == NOT_FOUND

SecondRequestDelete == "DELETE"
SecondRequest == "GET"

\* test_delete_operation up to its second await: DELETE the fixture Operation
\* and check 200; a failed check ends the body before the GET.
test_delete_operation_delete ==
    LET t == "test_delete_operation"
        id == function_operation[t][1]["id"] IN
    /\ pc[t] = "call"
    /\ \E i \in Outcomes :
          \E out \in {Exchange(BackendDelete(store, id), store)[i]} :
          /\ store' = out.store
          /\ faults' = faults + (IF i = 1 THEN 0 ELSE 1)
          /\ log' = [log EXCEPT ![t] = Append(@, Entry("call", "DELETE", id, out.resp))]
          /\ IF out.resp.raised
             THEN /\ call_outcome' = [call_outcome EXCEPT ![t] = "error:transport"]
                  /\ pc' = [pc EXCEPT ![t] = AfterCall(t, "error:transport")]
                  /\ UNCHANGED steps
             ELSE IF ~AssertStatusCode(out.resp.status, OK)
             THEN /\ call_outcome' = [call_outcome EXCEPT ![t] = "failed:status"]
                  /\ pc' = [pc EXCEPT ![t] = AfterCall(t, "failed:status")]
                  /\ steps' = [steps EXCEPT ![t] = <<"assert_status_code">>]
             ELSE /\ pc' = [pc EXCEPT ![t] = "call2"]
                  /\ steps' = [steps EXCEPT ![t] = <<"assert_status_code">>]
                  /\ UNCHANGED call_outcome
    /\ UNCHANGED <<function_operation, operation, setup_outcome, teardown_outcome,
                   dump_vars>>

\* test_delete_operation from its second await: GET the same id, check 404.
test_delete_operation_get ==
    LET t == "test_delete_operation"
        id == function_operation[t][1]["id"] IN
    /\ pc[t] = "call2"
    /\ \E i \in Outcomes :
          \E out \in {Exchange(IF SecondRequest = "GET" THEN BackendGet(store, id)
                               ELSE BackendDelete(store, id), store)[i]} :
          LET outcome == IF out.resp.raised THEN "error:transport"
                         ELSE IF AssertStatusCode(out.resp.status, ReadAfterDeleteStatus)
                         THEN "passed" ELSE "failed:status" IN
          /\ store' = out.store
          /\ faults' = faults + (IF i = 1 THEN 0 ELSE 1)
          /\ log' = [log EXCEPT ![t] = Append(@, Entry("call", SecondRequest, id, out.resp))]
          /\ call_outcome' = [call_outcome EXCEPT ![t] = outcome]
          /\ steps' = [steps EXCEPT ![t] =
                IF out.resp.raised THEN @ ELSE Append(@, "assert_status_code")]
          /\ pc' = [pc EXCEPT ![t] = AfterCall(t, outcome)]
    /\ UNCHANGED <<function_operation, operation, setup_outcome, teardown_outcome,
                   dump_vars>>

Next ==
    \/ \E t \in FixtureTests : Setup(t)
    \/ test_get_operations
    \/ test_get_operation
    \/ test_create_operation
    \/ test_update_operation
    \/ test_delete_operation_delete
    \/ test_delete_operation_get
    \/ \E t \in FixtureTests : Teardown(t)

Spec == Init /\ [][Next]_vars

\* ------------------------------------------------------------------ serialization

\* The request schemas and their serialization on their own: a constructor
\* call with any keyword arguments, then the json= argument the client sends.
InitDump ==
    /\ InitSuite
    /\ schema \in {"create", "update"}
    /\ kwargs \in Kwargs(schema)
    /\ request = <<>>
    /\ payload = <<>>

\* CreateOperationSchema(**kwargs)
CreateOperationSchema ==
    /\ schema = "create"
    /\ request = <<>>
    /\ \E m \in BuildSchema(kwargs) : request' = <<m>>
    /\ UNCHANGED <<schema, kwargs, payload, suite_vars>>

\* UpdateOperationSchema(**kwargs)
UpdateOperationSchema ==
    /\ schema = "update"
    /\ request = <<>>
    /\ \E m \in BuildSchema(kwargs) : request' = <<m>>
    /\ UNCHANGED <<schema, kwargs, payload, suite_vars>>

\* create_operation_api(request): the body it POSTs.
create_operation_api ==
    /\ schema = "create"
    /\ request # <<>>
    /\ payload = <<>>
    /\ payload' = <<CreateDump(request[1])>>
    /\ UNCHANGED <<schema, kwargs, request, suite_vars>>

\* update_operation_api(id, request): the body it PATCHes.
update_operation_api ==
    /\ schema = "update"
    /\ request # <<>>
    /\ payload = <<>>
    /\ payload' = <<UpdateDump(request[1])>>
    /\ UNCHANGED <<schema, kwargs, request, suite_vars>>

NextDump ==
    \/ CreateOperationSchema
    \/ UpdateOperationSchema
    \/ create_operation_api
    \/ update_operation_api

SpecDump == InitDump /\ [][NextDump]_vars

\* ------------------------------------------------------------------ properties

Last(q) == q[Len(q)]

\* The requests a test issued in the given phase, in order.
Phase(t, phase) == SelectSeq(log[t], LAMBDA e : e.phase = phase)

\* How many DELETE requests a test issued for an id.
Deletes(t, id) ==
    Cardinality({k \in DOMAIN log[t] : log[t][k].method = "DELETE" /\ log[t][k].id = id})

Ids == {NoId} \cup {FreshId(t) : t \in Tests}

BodyEnded(t) == pc[t] \in {"teardown", "done"}

\* C1: once the fixture has yielded an Operation, the end of the body,
\* whatever its outcome, leads to the teardown and never past it; the teardown
\* issues one DELETE for exactly the fixture Operation's id; and a test whose
\* fixture was set up is never done without that DELETE as its last request.
C1_BodyEndEntersTeardown ==
    \A t \in FixtureTests :
        (pc[t] \in {"call", "call2"} /\ pc'[t] \notin {"call", "call2"}) =>
            (pc'[t] = "teardown" /\ call_outcome'[t] # "none")

C1_TeardownIssuesDelete ==
    \A t \in FixtureTests :
        (pc[t] = "teardown" /\ pc'[t] # "teardown") =>
            /\ Len(log'[t]) = Len(log[t]) + 1
            /\ Last(log'[t]).method = "DELETE"
            /\ Last(log'[t]).phase = "teardown"
            /\ Last(log'[t]).id = function_operation[t][1]["id"]

C1_DoneAfterDelete ==
    \A t \in FixtureTests :
        (pc[t] = "done" /\ setup_outcome[t] = "ok") =>
            /\ call_outcome[t] # "none"
            /\ Last(log[t]).phase = "teardown"
            /\ Last(log[t]).method = "DELETE"
            /\ Len(Phase(t, "teardown")) = 1

C1_CleanupOnAllExitPaths ==
    /\ []C1_DoneAfterDelete
    /\ [][C1_BodyEndEntersTeardown /\ C1_TeardownIssuesDelete]_vars

\* A test whose body did not pass is done, its teardown DELETE issued.
C1_Witness ==
    \E t \in FixtureTests :
        /\ pc[t] = "done"
        /\ call_outcome[t] \notin {"none", "passed"}
        /\ Last(log[t]).phase = "teardown"
        /\ Last(log[t]).method = "DELETE"

\* C2 as stated: the keys of the PATCH body are exactly the fields the caller
\* supplied.
C2_PayloadKeysAreSupplied ==
    (schema = "update" /\ payload # <<>>) =>
        DOMAIN payload[1] = {Alias(f) : f \in DOMAIN kwargs}

\* C2, amended: the keys of the PATCH body are exactly the wire names of the
\* fields whose value is not None once the defaults are applied; no member is
\* null; a field the caller left unset is sent with its generated default, a
\* field the caller set to None is absent.
C2_PayloadKeysAreNonNull ==
    (schema = "update" /\ payload # <<>>) =>
        /\ DOMAIN payload[1] = {Alias(f) : f \in {g \in Fields : request[1][g] # None}}
        /\ \A k \in DOMAIN payload[1] : payload[1][k] # Null
        /\ \A f \in Fields \ DOMAIN kwargs :
              /\ Alias(f) \in DOMAIN payload[1]
              /\ payload[1][Alias(f)] \in {ToJson(f, v) : v \in DefaultFactory(f)}
        /\ \A f \in DOMAIN kwargs :
              IF kwargs[f] = None THEN Alias(f) \notin DOMAIN payload[1]
              ELSE payload[1][Alias(f)] = ToJson(f, kwargs[f])

\* A PATCH body for a call that set one field to None and left another unset.
C2_Witness ==
    /\ schema = "update"
    /\ payload # <<>>
    /\ \E f \in DOMAIN kwargs : kwargs[f] = None
    /\ \E f \in Fields : f \notin DOMAIN kwargs

\* C3: the POST body has the five wire keys, whatever the request holds, a
\* None field being sent as null, and never the key transaction_date.
C3_CreatePayloadComplete ==
    (schema = "create" /\ payload # <<>>) =>
        /\ DOMAIN payload[1] =
              {"debit", "credit", "category", "description", "transactionDate"}
        /\ "transaction_date" \notin DOMAIN payload[1]
        /\ \A f \in {"debit", "credit"} :
              (request[1][f] = None) <=> (payload[1][f] = Null)

\* A POST body for a request whose debit is None.
C3_Witness ==
    /\ schema = "create"
    /\ payload # <<>>
    /\ request[1]["debit"] = None
    /\ payload[1]["debit"] = Null

\* C4 as stated: the fixture never holds an Operation built from a non-2xx
\* response.
C4_NoOperationFromNon2xx ==
    \A t \in FixtureTests :
        setup_outcome[t] = "ok" => log[t][1].status \in 200..299

\* C4, amended: create_operation() looks at the body alone.  For a response
\* that arrived, it returns an Operation exactly when the body is an object
\* with an id, and raises the parsing error exactly when it is not, whatever
\* the status code.
C4_ParseDecidesAlone ==
    \A t \in FixtureTests :
        (log[t] # <<>> /\ log[t][1].status # 0) =>
            /\ (setup_outcome[t] = "ok") <=> ("id" \in log[t][1].keys)
            /\ (setup_outcome[t] = "error:validation") <=> ("id" \notin log[t][1].keys)

\* A non-2xx response without an id ended the setup with a parsing error.
C4_Witness ==
    \E t \in FixtureTests :
        /\ log[t] # <<>>
        /\ log[t][1].status = 500
        /\ "id" \notin log[t][1].keys
        /\ setup_outcome[t] = "error:validation"
        /\ pc[t] = "done"

\* C5: when all five tests are done, the backend holds no Operation the suite
\* created.
C5_NoLeak == (\A t \in Tests : pc[t] = "done") => store = {}

\* C6: the body of test_delete_operation issues DELETE then GET for the
\* fixture Operation's id, the GET only after a DELETE answered 200, and it
\* passes exactly when the DELETE answered 200 and the GET 404.
C6_DeleteThenGet ==
    LET t == "test_delete_operation"
        calls == Phase(t, "call") IN
    /\ Len(calls) <= 2
    /\ Len(calls) >= 1 => calls[1].method = "DELETE"
    /\ Len(calls) = 2 =>
          /\ calls[2].method = "GET"
          /\ calls[2].id = calls[1].id
          /\ calls[1].status = OK
    /\ function_operation[t] # <<>> =>
          \A k \in DOMAIN calls : calls[k].id = function_operation[t][1]["id"]
    /\ pc[t] = "call2" => (Len(calls) = 1 /\ calls[1].status = OK)
    /\ BodyEnded(t) =>
          ((call_outcome[t] = "passed") <=>
              (Len(calls) = 2 /\ calls[1].status = OK /\ calls[2].status = NOT_FOUND))

\* The delete body passed while another test was between its awaits.
C6_Witness ==
    /\ call_outcome["test_delete_operation"] = "passed"
    /\ Len(Phase("test_delete_operation", "call")) = 2
    /\ pc["test_update_operation"] = "teardown"

C8_AtMostOneDelete == \A t \in Tests : \A id \in Ids : Deletes(t, id) <= 1

\* C8, amended: no test body issues more than one DELETE for an id and no
\* test but test_delete_operation issues more than one in all; there the
\* body's DELETE is followed by the teardown's DELETE for the same id, two
\* in all.
C8_SecondDeleteOnlyInTeardown ==
    \A t \in Tests : \A id \in Ids :
        /\ Deletes(t, id) <= (IF t = "test_delete_operation" THEN 2 ELSE 1)
        /\ Cardinality({k \in DOMAIN log[t] :
              log[t][k].method = "DELETE" /\ log[t][k].id = id
              /\ log[t][k].phase = "call"}) <= 1
        /\ (t = "test_delete_operation" /\ pc[t] = "done" /\ setup_outcome[t] = "ok") =>
              \E i \in Ids : Deletes(t, i) = 2

\* test_delete_operation is done with two DELETEs for its Operation, the
\* first answered 200.
C8_Witness ==
    LET t == "test_delete_operation" IN
    /\ pc[t] = "done"
    /\ Deletes(t, FreshId(t)) = 2
    /\ log[t][2].status = OK

\* C9 as stated: a teardown DELETE that did not succeed, by an exception or
\* by a non-success status, ends the test in a teardown error.
C9_FailedDeleteIsTeardownError ==
    \A t \in FixtureTests :
        (pc[t] = "done" /\ setup_outcome[t] = "ok" /\ Last(log[t]).status # OK) =>
            teardown_outcome[t] # "ok"

\* C9, amended: the teardown ends in an error exactly when the transport
\* raised on its DELETE; a response, whatever its status, is not looked at and
\* leaves the outcome of the test as the body left it.
C9_OnlyTransportErrorSurfaces ==
    \A t \in FixtureTests :
        (pc[t] = "done" /\ setup_outcome[t] = "ok") =>
            /\ (Last(log[t]).status = 0) <=> (teardown_outcome[t] = "error:transport")
            /\ (Last(log[t]).status # 0) <=> (teardown_outcome[t] = "ok")

\* The transport raised on a teardown DELETE and the teardown ended in error.
C9_Witness ==
    \E t \in FixtureTests :
        /\ pc[t] = "done"
        /\ setup_outcome[t] = "ok"
        /\ Last(log[t]).phase = "teardown"
        /\ Last(log[t]).status = 0
        /\ teardown_outcome[t] = "error:transport"

\* C10: in the read, create and update scenarios a response whose status is
\* not the expected one ends the body with the status-code assertion failure.
C10_StatusCheckedFirst ==
    \A t \in {"test_get_operation", "test_create_operation", "test_update_operation"} :
        LET calls == Phase(t, "call") IN
        (BodyEnded(t) /\ calls # <<>> /\ calls[1].status \notin {0, ExpectedStatus(t)}) =>
            call_outcome[t] = "failed:status"

====
